---- MODULE Spec2Model ----
(***************************************************************************)
(* Model of src/auth/auth.py: the bearer-token authorization pipeline      *)
(* (get_token_auth_header, get_rsa, verify_decode_jwt, check_permissions,  *)
(* requires_auth).                                                         *)
(*                                                                         *)
(* Python values are modelled as follows.                                  *)
(*   dict            a record (function on strings); 'k' in d is           *)
(*                   "k" \in DOMAIN d                                      *)
(*   list            a sequence                                            *)
(*   header string   a sequence of atoms: the space SP and words (maximal  *)
(*                   runs of non-space characters, never two in a row)     *)
(*   word            [w |-> "..."] for plain text, or a JWT record         *)
(*                   [hdr, claims, sig] for a string that is a decodable   *)
(*                   three-segment token                                   *)
(*   call outcome    [ret |-> v] for a return, [raise |-> e] for a raise   *)
(***************************************************************************)
EXTENDS Integers, Sequences, FiniteSets, TLC

(***************************************************************************)
(* Bounds of the model.                                                    *)
(***************************************************************************)
MaxTime == 2    \* clock readings and exp/nbf timestamps range over 1..MaxTime
MaxPerms == 1   \* longest permissions list carried by a gate token
MaxKeys == 2    \* longest key set returned by the key-set endpoint

(***************************************************************************)
(* Module-level configuration.                                             *)
(***************************************************************************)
AUTH0_DOMAIN == "dev-eid5kfny.us.auth0.com"
ALGORITHMS == <<"RS256">>
API_AUDIENCE == "stock"
\* f'https://{AUTH0_DOMAIN}/' as passed to jwt.decode
ISSUER == "https://dev-eid5kfny.us.auth0.com/"

(***************************************************************************)
(* Outcomes and exceptions.                                                *)
(***************************************************************************)
Ok(v) == [ret |-> v]
Raise(e) == [raise |-> e]
Raised(r) == "raise" \in DOMAIN r
Returned(r) == "ret" \in DOMAIN r

\* AuthError(error, status_code) with error = {'code': ..., 'description': ...}
AuthError(code, description, status_code) ==
    [exc |-> "AuthError",
     error |-> [code |-> code, description |-> description],
     status_code |-> status_code]

\* exceptions of the libraries that the module calls
JWTError == [exc |-> "JWTError"]
ExpiredSignatureError == [exc |-> "ExpiredSignatureError"]
JWTClaimsError == [exc |-> "JWTClaimsError"]
KeyError == [exc |-> "KeyError"]
URLError == [exc |-> "URLError"]

IsAuthError(e) == e.exc = "AuthError"

None == [none |-> TRUE]
EmptyDict == [k \in {} |-> TRUE]
InList(x, list) == \E i \in 1..Len(list) : list[i] = x

(***************************************************************************)
(* get_token_auth_header                                                   *)
(***************************************************************************)
SP == [w |-> " "]
EmptyWord == [w |-> ""]

\* str.split(' '): every single space separates, so empty parts appear
RECURSIVE Split(_)
Split(s) ==
    IF s = <<>> THEN <<EmptyWord>>
    ELSE IF Head(s) = SP THEN <<EmptyWord>> \o Split(Tail(s))
    ELSE IF Len(s) = 1 THEN <<Head(s)>>
    ELSE <<Head(s)>> \o Split(Tail(Tail(s)))

\* str.lower() on the words the model uses
LowerStr(s) ==
    CASE s = "Bearer" -> "bearer"
      [] s = "BEARER" -> "bearer"
      [] s = "bEaReR" -> "bearer"
      [] s = "Basic" -> "basic"
      [] s = "AbC" -> "abc"
      [] OTHER -> s

Lower(word) == IF "w" \in DOMAIN word THEN [w |-> LowerStr(word.w)] ELSE word

\* request.headers.get("Authorization", None): None or a string
NoHeader == [present |-> FALSE]
HeaderOf(s) == [present |-> TRUE, value |-> s]

\* 'not header' is true of None and of the empty string
Falsy(header) == ~header.present \/ header.value = <<>>

\* get_token_auth_header without the test for a missing header
get_token_auth_header_MissingAsEmpty(header) ==
    IF Falsy(header) THEN Ok(EmptyWord)
    ELSE LET header_split == Split(header.value) IN
         IF Lower(header_split[1]) # [w |-> "bearer"] \/ Len(header_split) # 2
         THEN Raise(AuthError("invalid_header", "Authorization header is malformed.", 401))
         ELSE Ok(header_split[2])

\* get_token_auth_header returning the token part in lower case
get_token_auth_header_LowersToken(header) ==
    IF Falsy(header)
    THEN Raise(AuthError("invalid_header", "Authorization header is missing.", 401))
    ELSE LET header_split == Split(header.value) IN
         IF Lower(header_split[1]) # [w |-> "bearer"] \/ Len(header_split) # 2
         THEN Raise(AuthError("invalid_header", "Authorization header is malformed.", 401))
         ELSE Ok(Lower(header_split[2]))

get_token_auth_header(header) ==
    IF Falsy(header)
    THEN Raise(AuthError("invalid_header", "Authorization header is missing.", 401))
    ELSE LET header_split == Split(header.value) IN
         IF Lower(header_split[1]) # [w |-> "bearer"] \/ Len(header_split) # 2
         THEN Raise(AuthError("invalid_header", "Authorization header is malformed.", 401))
         ELSE Ok(header_split[2])

(***************************************************************************)
(* check_permissions                                                       *)
(***************************************************************************)
\* str.lower() on the permission strings the model uses
LowerPerm(s) == IF s = "GET:STOCK" THEN "get:stock" ELSE s

\* check_permissions comparing without regard to case
check_permissions_CaseInsensitive(permission, payload) ==
    IF "permissions" \notin DOMAIN payload
    THEN Raise(AuthError("invalid_permission", "Permissions not included in payload", 400))
    ELSE IF ~\E i \in 1..Len(payload.permissions) :
                 LowerPerm(payload.permissions[i]) = LowerPerm(permission)
    THEN Raise(AuthError("unauthorized_permission",
                         " Permission string not in the payload permissions array", 401))
    ELSE Ok(TRUE)

\* check_permissions reading the entry as payload.get('permissions', [])
check_permissions_MissingAsEmpty(permission, payload) ==
    IF "permissions" \notin DOMAIN payload \/ ~InList(permission, payload.permissions)
    THEN Raise(AuthError("unauthorized_permission",
                         " Permission string not in the payload permissions array", 401))
    ELSE Ok(TRUE)

check_permissions(permission, payload) ==
    IF "permissions" \notin DOMAIN payload
    THEN Raise(AuthError("invalid_permission", "Permissions not included in payload", 400))
    ELSE IF ~InList(permission, payload.permissions)
    THEN Raise(AuthError("unauthorized_permission",
                         " Permission string not in the payload permissions array", 401))
    ELSE Ok(TRUE)

(***************************************************************************)
(* get_rsa, after the fetch: the header peek and the key scan              *)
(***************************************************************************)
\* jwt.get_unverified_header(token): JWTError unless the token has three
\* segments that decode; no signature check
get_unverified_header(token) ==
    IF "hdr" \in DOMAIN token THEN Ok(token.hdr) ELSE Raise(JWTError)

KeyFields == {"kty", "kid", "use", "n", "e"}

\* the for loop without its break: every entry is examined and the last
\* entry whose kid matches wins
RECURSIVE ScanKeys_NoBreak(_, _)
ScanKeys_NoBreak(keys, kid) ==
    IF keys = <<>> THEN Ok(EmptyDict)
    ELSE LET key == Head(keys)
             rest == ScanKeys_NoBreak(Tail(keys), kid)
         IN IF "kid" \notin DOMAIN key THEN Raise(KeyError)
            ELSE IF key.kid # kid THEN rest
            ELSE IF ~(KeyFields \subseteq DOMAIN key) THEN Raise(KeyError)
            ELSE IF Raised(rest) \/ DOMAIN rest.ret # {} THEN rest
            ELSE Ok([kty |-> key.kty, kid |-> key.kid, use |-> key.use,
                     n |-> key.n, e |-> key.e])

\* the for loop over jwks['keys']: rsa = {} unless an entry's kid matches;
\* subscripting a missing field of an entry raises KeyError
RECURSIVE ScanKeys(_, _)
ScanKeys(keys, kid) ==
    IF keys = <<>> THEN Ok(EmptyDict)
    ELSE LET key == Head(keys) IN
         IF "kid" \notin DOMAIN key THEN Raise(KeyError)
         ELSE IF key.kid = kid
         THEN IF KeyFields \subseteq DOMAIN key
              THEN Ok([kty |-> key.kty, kid |-> key.kid, use |-> key.use,
                       n |-> key.n, e |-> key.e])
              ELSE Raise(KeyError)
         ELSE ScanKeys(Tail(keys), kid)

\* get_rsa falling back to the first entry when no kid matches
ResolveKey_FallsBackToFirstKey(jwks, unverified_header) ==
    IF "kid" \notin DOMAIN unverified_header
    THEN Raise(AuthError("invalid_header", "key id missing in token header", 401))
    ELSE LET scan == ScanKeys(jwks.keys, unverified_header.kid) IN
         IF Raised(scan) THEN scan
         ELSE IF DOMAIN scan.ret = {}
         THEN IF jwks.keys = <<>>
              THEN Raise(AuthError("invalid_header", "Token header is malformed.", 401))
              ELSE Ok(Head(jwks.keys))
         ELSE Ok(scan.ret)

\* get_rsa without the kid test: a header without kid takes the first entry
ResolveKey_KidOptional(jwks, unverified_header) ==
    IF "kid" \notin DOMAIN unverified_header
    THEN IF jwks.keys = <<>>
         THEN Raise(AuthError("invalid_header", "Token header is malformed.", 401))
         ELSE Ok(Head(jwks.keys))
    ELSE LET scan == ScanKeys(jwks.keys, unverified_header.kid) IN
         IF Raised(scan) THEN scan
         ELSE IF DOMAIN scan.ret = {}
         THEN Raise(AuthError("invalid_header", "Token header is malformed.", 401))
         ELSE Ok(scan.ret)

\* lines 98-124 of get_rsa, given the fetched key set and the peeked header
ResolveKey(jwks, unverified_header) ==
    IF "kid" \notin DOMAIN unverified_header
    THEN Raise(AuthError("invalid_header", "key id missing in token header", 401))
    ELSE LET scan == ScanKeys(jwks.keys, unverified_header.kid) IN
         IF Raised(scan) THEN scan
         ELSE IF DOMAIN scan.ret = {}
         THEN Raise(AuthError("invalid_header", "Token header is malformed.", 401))
         ELSE Ok(scan.ret)

(***************************************************************************)
(* verify_decode_jwt, after get_rsa: jwt.decode and the except clauses     *)
(***************************************************************************)
\* jwt.decode(token, rsa, algorithms, audience, issuer) of python-jose at
\* clock reading now: jws.verify first (structure, alg, signature), then the
\* claims in the library's order nbf, exp, aud, iss.  A claim that is absent
\* is skipped, except iss, which must equal the issuer.
\* jwt.decode with the signature left unverified
jwt_decode_NoSignatureCheck(token, rsa, now) ==
    IF "hdr" \notin DOMAIN token THEN Raise(JWTError)
    ELSE IF "alg" \notin DOMAIN token.hdr \/ ~InList(token.hdr.alg, ALGORITHMS)
    THEN Raise(JWTError)
    ELSE LET claims == token.claims IN
         IF "nbf" \in DOMAIN claims /\ claims.nbf > now THEN Raise(JWTClaimsError)
         ELSE IF "exp" \in DOMAIN claims /\ claims.exp < now
         THEN Raise(ExpiredSignatureError)
         ELSE IF "aud" \in DOMAIN claims /\ claims.aud # API_AUDIENCE
         THEN Raise(JWTClaimsError)
         ELSE IF "iss" \notin DOMAIN claims \/ claims.iss # ISSUER
         THEN Raise(JWTClaimsError)
         ELSE Ok(claims)

jwt_decode(token, rsa, now) ==
    IF "hdr" \notin DOMAIN token THEN Raise(JWTError)
    ELSE IF "alg" \notin DOMAIN token.hdr \/ ~InList(token.hdr.alg, ALGORITHMS)
    THEN Raise(JWTError)
    ELSE IF token.sig # rsa.n THEN Raise(JWTError)
    ELSE LET claims == token.claims IN
         IF "nbf" \in DOMAIN claims /\ claims.nbf > now THEN Raise(JWTClaimsError)
         ELSE IF "exp" \in DOMAIN claims /\ claims.exp < now
         THEN Raise(ExpiredSignatureError)
         ELSE IF "aud" \in DOMAIN claims /\ claims.aud # API_AUDIENCE
         THEN Raise(JWTClaimsError)
         ELSE IF "iss" \notin DOMAIN claims \/ claims.iss # ISSUER
         THEN Raise(JWTClaimsError)
         ELSE Ok(claims)

\* verify_decode_jwt with 'except Exception' as the first clause
VerifyWithKey_BroadExceptFirst(token, rsa, now) ==
    LET decoded == jwt_decode(token, rsa, now) IN
    IF Returned(decoded) THEN Ok(decoded.ret)
    ELSE Raise(AuthError("invalid_token", "Unable to decode authentication token.", 400))

\* the try/except of verify_decode_jwt around jwt.decode
VerifyWithKey(token, rsa, now) ==
    LET decoded == jwt_decode(token, rsa, now) IN
    IF Returned(decoded) THEN Ok(decoded.ret)
    ELSE IF decoded.raise = ExpiredSignatureError
    THEN Raise(AuthError("token_expired", "Token expired.", 401))
    ELSE IF decoded.raise = JWTClaimsError
    THEN Raise(AuthError("invalid_claims",
                         "Incorrect claims. Please, check the audience and issuer.", 401))
    ELSE Raise(AuthError("invalid_token", "Unable to decode authentication token.", 400))

\* get_rsa on a fetched key set: the peek, the kid test and the scan
get_rsa(token, jwks) ==
    LET peeked == get_unverified_header(token) IN
    IF Raised(peeked) THEN peeked ELSE ResolveKey(jwks, peeked.ret)

\* verify_decode_jwt on a fetched key set at clock reading now
verify_decode_jwt(token, jwks, now) ==
    LET key == get_rsa(token, jwks) IN
    IF Raised(key) THEN key ELSE VerifyWithKey(token, key.ret, now)

(***************************************************************************)
(* Inputs of the model.                                                    *)
(***************************************************************************)
Restrict(f, D) == [k \in D |-> f[k]]
SeqsUpTo(S, n) == UNION {[1..k -> S] : k \in 0..n}

Times == 1..MaxTime

\* permission strings; the decorator's default is ''
PermStrings == {"", "get:stock", "GET:STOCK"}
RequiredPermissions == {"", "get:stock"}

\* claim sets in the provider's shape: exp, aud, iss and an optional
\* permissions list
GateClaimSets ==
    {Restrict([exp |-> e, aud |-> a, iss |-> i, permissions |-> p], D) :
        e \in Times, a \in {API_AUDIENCE, "other"}, i \in {ISSUER, "https://evil/"},
        p \in SeqsUpTo(PermStrings, MaxPerms),
        D \in {{"exp", "aud", "iss"}, {"exp", "aud", "iss", "permissions"}}}

\* token headers: with or without a key identifier
TokenHeaders ==
    {Restrict([alg |-> a, kid |-> "K1"], D) :
        a \in {"RS256", "HS256"}, D \in {{"alg"}, {"alg", "kid"}}}

\* strings that are decodable three-segment tokens, signed for modulus N1
GateJwts == [hdr : TokenHeaders, claims : GateClaimSets, sig : {"N1"}]

\* strings that are no decodable token: the empty string and plain text
MalformedTokens == {EmptyWord, [w |-> "abc"]}

GateTokens == GateJwts \cup MalformedTokens

\* Authorization headers: 'Bearer <token>' for every token, and the other
\* shapes for one token
SampleJwt ==
    [hdr |-> [alg |-> "RS256", kid |-> "K1"],
     claims |-> [exp |-> MaxTime, aud |-> API_AUDIENCE, iss |-> ISSUER,
                 permissions |-> <<"get:stock">>],
     sig |-> "N1"]

OddHeaders ==
    {NoHeader, HeaderOf(<<>>), HeaderOf(<<SampleJwt>>),
     HeaderOf(<<[w |-> "Basic"], SP, SampleJwt>>),
     HeaderOf(<<[w |-> "Bearer"]>>),
     HeaderOf(<<[w |-> "Bearer"], SP, SP, SampleJwt>>),
     HeaderOf(<<[w |-> "Bearer"], SP, SampleJwt, SP, [w |-> "abc"]>>),
     HeaderOf(<<SP, [w |-> "Bearer"], SP, SampleJwt>>),
     HeaderOf(<<[w |-> "BEARER"], SP, SampleJwt>>),
     HeaderOf(<<[w |-> "bearer"], SP, SampleJwt>>)}

GateHeaders ==
    OddHeaders \cup {HeaderOf(<<[w |-> "Bearer"], SP, t>>) : t \in GateTokens \ {EmptyWord}}
               \cup {HeaderOf(<<[w |-> "Bearer"], SP>>)}

\* key-set entries: complete ones, one without kid and one without use
FullKeys ==
    [kty : {"RSA"}, kid : {"K1", "K2"}, use : {"sig"}, n : {"N1", "N2"}, e : {"AQAB"}]
SampleKey == [kty |-> "RSA", kid |-> "K1", use |-> "sig", n |-> "N1", e |-> "AQAB"]
BrokenKeys ==
    {Restrict(SampleKey, KeyFields \ {"kid"}), Restrict(SampleKey, KeyFields \ {"use"})}
\* an entry with a field beyond the five that get_rsa copies
ExtraKeys == {[kty |-> "RSA", kid |-> "K1", use |-> "sig", n |-> "N1", e |-> "AQAB",
               x5t |-> "thumbprint"]}
KeyEntries == FullKeys \cup BrokenKeys \cup ExtraKeys

\* documents the key-set endpoint may answer with
JwksDocuments == {[keys |-> ks] : ks \in SeqsUpTo(KeyEntries, MaxKeys)}

\* positional arguments of the caller
CallerArgs == {<<>>, <<"drink_id">>}

\* the protected operation: its result is a function of what it is given
F(payload, args) == [body |-> [payload |-> payload, args |-> args]]

(***************************************************************************)
(* One guarded call per element of Calls: wrapper of requires_auth.        *)
(***************************************************************************)
Calls == {1, 2}
Solo == {1}

VARIABLES
    pc,                 \* position of each call
    permission,         \* the permission the guard was built with
    args,               \* the caller's arguments
    header,             \* the request's Authorization header
    token,              \* local of wrapper
    jwks,               \* local of get_rsa
    unverified_header,  \* local of get_rsa
    rsa,                \* result of get_rsa
    now,                \* clock reading of jwt.decode
    payload,            \* local of wrapper
    error,              \* exception that left wrapper
    fcalls,             \* argument lists the protected operation was invoked with
    result,             \* value wrapper returned
    log,                \* steps run, in order
    inp,                \* arguments of a function applied on its own
    out                 \* its outcome

gatevars == <<pc, permission, args, header, token, jwks, unverified_header, rsa, now,
              payload, error, fcalls, result, log>>
fnvars == <<inp, out>>
vars == <<gatevars, fnvars>>

InitGate ==
    /\ pc = [c \in Calls |-> "NEW"]
    /\ permission = [c \in Calls |-> None]
    /\ args = [c \in Calls |-> None]
    /\ header = [c \in Calls |-> None]
    /\ token = [c \in Calls |-> None]
    /\ jwks = [c \in Calls |-> None]
    /\ unverified_header = [c \in Calls |-> None]
    /\ rsa = [c \in Calls |-> None]
    /\ now = [c \in Calls |-> 0]
    /\ payload = [c \in Calls |-> None]
    /\ error = [c \in Calls |-> None]
    /\ fcalls = [c \in Calls |-> <<>>]
    /\ result = [c \in Calls |-> None]
    /\ log = [c \in Calls |-> <<>>]

Init == InitGate /\ inp = None /\ out = None

\* an exception leaves wrapper
Fail(c, e) ==
    /\ pc' = [pc EXCEPT ![c] = "FAILED"]
    /\ error' = [error EXCEPT ![c] = e]

\* the guarded operation built for a permission of perms is called with
\* arguments of arglists under a request with a header of headers
CallWith(c, perms, arglists, headers) ==
    /\ pc[c] = "NEW"
    /\ \E p \in perms, a \in arglists, h \in headers :
          /\ permission' = [permission EXCEPT ![c] = [value |-> p]]
          /\ args' = [args EXCEPT ![c] = [value |-> a]]
          /\ header' = [header EXCEPT ![c] = h]
    /\ pc' = [pc EXCEPT ![c] = "START"]
    /\ UNCHANGED <<token, jwks, unverified_header, rsa, now, payload, error, fcalls,
                   result, log>>
    /\ UNCHANGED fnvars

Call(c) == CallWith(c, RequiredPermissions, CallerArgs, GateHeaders)

\* token = get_token_auth_header()
ExtractHeader(c) ==
    /\ pc[c] = "START"
    /\ log' = [log EXCEPT ![c] = Append(@, "get_token_auth_header")]
    /\ LET r == get_token_auth_header(header[c]) IN
       IF Raised(r)
       THEN Fail(c, r.raise) /\ UNCHANGED token
       ELSE /\ token' = [token EXCEPT ![c] = r.ret]
            /\ pc' = [pc EXCEPT ![c] = "HEADER_EXTRACTED"]
            /\ UNCHANGED error
    /\ UNCHANGED <<permission, args, header, jwks, unverified_header, rsa, now, payload,
                   fcalls, result>>
    /\ UNCHANGED fnvars

\* get_rsa looking at the token before the fetch: an undecodable token or a
\* header without kid ends the call with no request sent
CallUrlopen_PeeksFirst(c) ==
    /\ pc[c] = "HEADER_EXTRACTED"
    /\ LET peek == get_unverified_header(token[c]) IN
       IF Raised(peek)
       THEN /\ Fail(c, peek.raise)
            /\ log' = [log EXCEPT ![c] = Append(@, "get_unverified_header")]
       ELSE IF "kid" \notin DOMAIN peek.ret
       THEN /\ Fail(c, AuthError("invalid_header", "key id missing in token header", 401))
            /\ log' = [log EXCEPT ![c] = Append(@, "get_unverified_header")]
       ELSE /\ log' = [log EXCEPT ![c] = Append(@, "urlopen")]
            /\ pc' = [pc EXCEPT ![c] = "FETCHING"]
            /\ UNCHANGED error
    /\ UNCHANGED <<permission, args, header, token, jwks, unverified_header, rsa, now,
                   payload, fcalls, result>>
    /\ UNCHANGED fnvars

\* get_rsa: urlopen(url) is called; it blocks until the endpoint answers
CallUrlopen(c) ==
    /\ pc[c] = "HEADER_EXTRACTED"
    /\ log' = [log EXCEPT ![c] = Append(@, "urlopen")]
    /\ pc' = [pc EXCEPT ![c] = "FETCHING"]
    /\ UNCHANGED <<permission, args, header, token, jwks, unverified_header, rsa, now,
                   payload, error, fcalls, result>>
    /\ UNCHANGED fnvars

\* the response step with a failed fetch tried again (twice at most)
ReceiveJwks_Retries(c, docs) ==
    /\ pc[c] = "FETCHING"
    /\ \/ /\ IF Len(log[c]) < 3
             THEN pc' = [pc EXCEPT ![c] = "HEADER_EXTRACTED"] /\ UNCHANGED error
             ELSE Fail(c, URLError)
          /\ UNCHANGED jwks
       \/ \E doc \in docs :
             /\ jwks' = [jwks EXCEPT ![c] = doc]
             /\ pc' = [pc EXCEPT ![c] = "JWKS_FETCHED"]
             /\ UNCHANGED error
    /\ UNCHANGED <<permission, args, header, token, unverified_header, rsa, now, payload,
                   fcalls, result, log>>
    /\ UNCHANGED fnvars

\* get_rsa: the endpoint answers with one of docs, or the transport fails;
\* jwks = json.loads(urlopen(url).read())
ReceiveJwks(c, docs) ==
    /\ pc[c] = "FETCHING"
    /\ \/ Fail(c, URLError) /\ UNCHANGED jwks
       \/ \E doc \in docs :
             /\ jwks' = [jwks EXCEPT ![c] = doc]
             /\ pc' = [pc EXCEPT ![c] = "JWKS_FETCHED"]
             /\ UNCHANGED error
    /\ UNCHANGED <<permission, args, header, token, unverified_header, rsa, now, payload,
                   fcalls, result, log>>
    /\ UNCHANGED fnvars

FetchJwks(c) == ReceiveJwks(c, JwksDocuments)

\* PeekHeader with the decoding error swallowed: the call goes on with {}
PeekHeader_Swallows(c) ==
    /\ pc[c] = "JWKS_FETCHED"
    /\ log' = [log EXCEPT ![c] = Append(@, "get_unverified_header")]
    /\ LET r == get_unverified_header(token[c]) IN
       unverified_header' =
           [unverified_header EXCEPT ![c] = IF Raised(r) THEN EmptyDict ELSE r.ret]
    /\ pc' = [pc EXCEPT ![c] = "HEADER_PEEKED"]
    /\ UNCHANGED <<permission, args, header, token, jwks, rsa, now, payload, fcalls,
                   result, error>>
    /\ UNCHANGED fnvars

\* get_rsa: unverified_header = jwt.get_unverified_header(token)
PeekHeader(c) ==
    /\ pc[c] = "JWKS_FETCHED"
    /\ log' = [log EXCEPT ![c] = Append(@, "get_unverified_header")]
    /\ LET r == get_unverified_header(token[c]) IN
       IF Raised(r)
       THEN Fail(c, r.raise) /\ UNCHANGED unverified_header
       ELSE /\ unverified_header' = [unverified_header EXCEPT ![c] = r.ret]
            /\ pc' = [pc EXCEPT ![c] = "HEADER_PEEKED"]
            /\ UNCHANGED error
    /\ UNCHANGED <<permission, args, header, token, jwks, rsa, now, payload, fcalls,
                   result>>
    /\ UNCHANGED fnvars

\* get_rsa keeping the resolved key in a module-level variable that every
\* call reads
SelectKey_SharedKey(c) ==
    /\ pc[c] = "HEADER_PEEKED"
    /\ log' = [log EXCEPT ![c] = Append(@, "select_key")]
    /\ LET r == ResolveKey(jwks[c], unverified_header[c]) IN
       IF Raised(r)
       THEN Fail(c, r.raise) /\ UNCHANGED rsa
       ELSE /\ rsa' = [d \in Calls |-> r.ret]
            /\ pc' = [pc EXCEPT ![c] = "KEY_RESOLVED"]
            /\ UNCHANGED error
    /\ UNCHANGED <<permission, args, header, token, jwks, unverified_header, now, payload,
                   fcalls, result>>
    /\ UNCHANGED fnvars

\* get_rsa: the kid test, the scan of jwks['keys'] and the return
SelectKey(c) ==
    /\ pc[c] = "HEADER_PEEKED"
    /\ log' = [log EXCEPT ![c] = Append(@, "select_key")]
    /\ LET r == ResolveKey(jwks[c], unverified_header[c]) IN
       IF Raised(r)
       THEN Fail(c, r.raise) /\ UNCHANGED rsa
       ELSE /\ rsa' = [rsa EXCEPT ![c] = r.ret]
            /\ pc' = [pc EXCEPT ![c] = "KEY_RESOLVED"]
            /\ UNCHANGED error
    /\ UNCHANGED <<permission, args, header, token, jwks, unverified_header, now, payload,
                   fcalls, result>>
    /\ UNCHANGED fnvars

\* verify_decode_jwt remembering the tokens it has verified and refusing a
\* token it has seen
DecodeToken_Replay(c) ==
    /\ pc[c] = "KEY_RESOLVED"
    /\ log' = [log EXCEPT ![c] = Append(@, "jwt.decode")]
    /\ \E t \in Times :
          /\ now' = [now EXCEPT ![c] = t]
          /\ LET r == VerifyWithKey(token[c], rsa[c], t)
                 seen == \E d \in Calls \ {c} : token[d] = token[c] /\ payload[d] # None
             IN IF Raised(r)
                THEN Fail(c, r.raise) /\ UNCHANGED payload
                ELSE IF seen
                THEN /\ Fail(c, AuthError("invalid_token",
                                          "Unable to decode authentication token.", 400))
                     /\ UNCHANGED payload
                ELSE /\ payload' = [payload EXCEPT ![c] = r.ret]
                     /\ pc' = [pc EXCEPT ![c] = "TOKEN_VERIFIED"]
                     /\ UNCHANGED error
    /\ UNCHANGED <<permission, args, header, token, jwks, unverified_header, rsa, fcalls,
                   result>>
    /\ UNCHANGED fnvars

\* verify_decode_jwt: jwt.decode under try/except, at some clock reading
DecodeToken(c) ==
    /\ pc[c] = "KEY_RESOLVED"
    /\ log' = [log EXCEPT ![c] = Append(@, "jwt.decode")]
    /\ \E t \in Times :
          /\ now' = [now EXCEPT ![c] = t]
          /\ LET r == VerifyWithKey(token[c], rsa[c], t) IN
             IF Raised(r)
             THEN Fail(c, r.raise) /\ UNCHANGED payload
             ELSE /\ payload' = [payload EXCEPT ![c] = r.ret]
                  /\ pc' = [pc EXCEPT ![c] = "TOKEN_VERIFIED"]
                  /\ UNCHANGED error
    /\ UNCHANGED <<permission, args, header, token, jwks, unverified_header, rsa, fcalls,
                   result>>
    /\ UNCHANGED fnvars

\* CheckPermission with the outcome of check_permissions ignored
CheckPermission_Unchecked(c) ==
    /\ pc[c] = "TOKEN_VERIFIED"
    /\ log' = [log EXCEPT ![c] = Append(@, "check_permissions")]
    /\ pc' = [pc EXCEPT ![c] = "PERMISSION_CHECKED"]
    /\ UNCHANGED <<permission, args, header, token, jwks, unverified_header, rsa, now,
                   payload, fcalls, result, error>>
    /\ UNCHANGED fnvars

\* check_permissions(permission, payload)
CheckPermission(c) ==
    /\ pc[c] = "TOKEN_VERIFIED"
    /\ log' = [log EXCEPT ![c] = Append(@, "check_permissions")]
    /\ LET r == check_permissions(permission[c].value, payload[c]) IN
       IF Raised(r)
       THEN Fail(c, r.raise)
       ELSE /\ pc' = [pc EXCEPT ![c] = "PERMISSION_CHECKED"]
            /\ UNCHANGED error
    /\ UNCHANGED <<permission, args, header, token, jwks, unverified_header, rsa, now,
                   payload, fcalls, result>>
    /\ UNCHANGED fnvars

\* InvokeF with the caller's arguments dropped: f(payload)
InvokeF_DropsArgs(c) ==
    /\ pc[c] = "PERMISSION_CHECKED"
    /\ log' = [log EXCEPT ![c] = Append(@, "f")]
    /\ fcalls' = [fcalls EXCEPT ![c] = Append(@, <<payload[c]>>)]
    /\ result' = [result EXCEPT ![c] = F(payload[c], <<>>)]
    /\ pc' = [pc EXCEPT ![c] = "RETURNED"]
    /\ UNCHANGED <<permission, args, header, token, jwks, unverified_header, rsa, now,
                   payload, error>>
    /\ UNCHANGED fnvars

\* return f(payload, *args, **kwargs)
InvokeF(c) ==
    /\ pc[c] = "PERMISSION_CHECKED"
    /\ log' = [log EXCEPT ![c] = Append(@, "f")]
    /\ fcalls' = [fcalls EXCEPT ![c] = Append(@, <<payload[c]>> \o args[c].value)]
    /\ result' = [result EXCEPT ![c] = F(payload[c], args[c].value)]
    /\ pc' = [pc EXCEPT ![c] = "RETURNED"]
    /\ UNCHANGED <<permission, args, header, token, jwks, unverified_header, rsa, now,
                   payload, error>>
    /\ UNCHANGED fnvars

Step(c) ==
    \/ Call(c)
    \/ ExtractHeader(c)
    \/ CallUrlopen(c)
    \/ FetchJwks(c)
    \/ PeekHeader(c)
    \/ SelectKey(c)
    \/ DecodeToken(c)
    \/ CheckPermission(c)
    \/ InvokeF(c)

Next == \E c \in Solo : Step(c)

Spec == Init /\ [][Next]_vars

(***************************************************************************)
(* check_permissions applied on its own to a permission and a payload.     *)
(***************************************************************************)
MaxPermList == 2   \* longest permissions list given to check_permissions

AllPermStrings == PermStrings \cup {"get:"}

PermPayloads ==
    {Restrict([exp |-> 1, aud |-> API_AUDIENCE, iss |-> ISSUER, permissions |-> p], D) :
        p \in SeqsUpTo(AllPermStrings, MaxPermList),
        D \in {{"exp", "aud", "iss"}, {"exp", "aud", "iss", "permissions"}}}

InitPerm ==
    /\ InitGate
    /\ inp \in [permission : AllPermStrings, payload : PermPayloads]
    /\ out = None

ApplyCheckPermissions ==
    /\ out = None
    /\ out' = check_permissions(inp.permission, inp.payload)
    /\ UNCHANGED <<inp, gatevars>>

SpecPerm == InitPerm /\ [][ApplyCheckPermissions]_vars

(***************************************************************************)
(* The verification of a token against a resolved key, applied on its own. *)
(***************************************************************************)
MaxStamp == 3   \* clock readings and timestamps given to the verification

Stamps == 1..MaxStamp

\* claim sets with each registered claim absent or present
VerifyClaimSets ==
    {Restrict([exp |-> e, nbf |-> b, aud |-> a, iss |-> i, permissions |-> <<"get:stock">>],
              D \cup {"permissions"}) :
        e \in Stamps, b \in Stamps, a \in {API_AUDIENCE, "other"},
        i \in {ISSUER, "https://evil/"}, D \in SUBSET {"exp", "nbf", "aud", "iss"}}

VerifyTokens ==
    [hdr : {h \in TokenHeaders : "kid" \in DOMAIN h}, claims : VerifyClaimSets,
     sig : {"N1", "N2"}]
    \cup MalformedTokens

InitVerify ==
    /\ InitGate
    /\ inp \in [token : VerifyTokens, rsa : {SampleKey}, now : Stamps]
    /\ out = None

ApplyVerify ==
    /\ out = None
    /\ out' = VerifyWithKey(inp.token, inp.rsa, inp.now)
    /\ UNCHANGED <<inp, gatevars>>

SpecVerify == InitVerify /\ [][ApplyVerify]_vars

(***************************************************************************)
(* Properties of the guarded call.                                         *)
(***************************************************************************)
\* the steps of wrapper in program order
StepOrder ==
    <<"get_token_auth_header", "urlopen", "get_unverified_header", "select_key",
      "jwt.decode", "check_permissions", "f">>

IsPrefix(a, b) == Len(a) <= Len(b) /\ \A i \in 1..Len(a) : a[i] = b[i]
InLog(c, step) == InList(step, log[c])
LastStep(c) == log[c][Len(log[c])]

\* what a step yields on the inputs of call c
Outcome(c, step) ==
    CASE step = "get_token_auth_header" -> get_token_auth_header(header[c])
      [] step = "urlopen" -> IF jwks[c] = None THEN Raise(URLError) ELSE Ok(jwks[c])
      [] step = "get_unverified_header" -> get_unverified_header(token[c])
      [] step = "select_key" -> ResolveKey(jwks[c], unverified_header[c])
      [] step = "jwt.decode" -> VerifyWithKey(token[c], rsa[c], now[c])
      [] step = "check_permissions" -> check_permissions(permission[c].value, payload[c])
      [] step = "f" -> Ok(F(payload[c], args[c].value))

\* the steps that must succeed before the protected operation runs
AuthSteps == {i \in 1..Len(StepOrder) : StepOrder[i] # "f"}

AllStepsSucceeded(c) ==
    \A i \in AuthSteps : InLog(c, StepOrder[i]) /\ Returned(Outcome(c, StepOrder[i]))

IsJwt(t) == "hdr" \in DOMAIN t
Failure(e, code, status_code) ==
    /\ IsAuthError(e)
    /\ e.error.code = code
    /\ e.status_code = status_code

\* C1: the protected operation is invoked only in a call in which header
\* extraction, the key-set fetch, key resolution, token verification and the
\* permission check have all succeeded; a call that failed never invoked it.
C1_InvokedOnlyAfterAllChecks ==
    \A c \in Calls :
        /\ fcalls[c] # <<>> => AllStepsSucceeded(c)
        /\ pc[c] = "FAILED" => fcalls[c] = <<>>

C1_Witness ==
    \E c \in Calls : pc[c] = "RETURNED" /\ Len(fcalls[c]) = 1 /\ AllStepsSucceeded(c)

\* C2: a call whose checks all succeed invokes the protected operation
\* exactly once, with the claims encoded in the token as first argument,
\* followed by the caller's arguments, and returns its result unchanged; a
\* call fails only when one of its steps raised.
C2_InvokedOnceWithClaims ==
    \A c \in Calls :
        /\ Len(fcalls[c]) <= 1
        /\ pc[c] = "PERMISSION_CHECKED" =>
              /\ fcalls[c] = <<>>
              /\ payload[c] = token[c].claims
              /\ Ok(payload[c]) = verify_decode_jwt(token[c], jwks[c], now[c])
        /\ pc[c] = "RETURNED" =>
              /\ fcalls[c] = << <<token[c].claims>> \o args[c].value >>
              /\ result[c] = F(token[c].claims, args[c].value)
        /\ pc[c] = "FAILED" => Raised(Outcome(c, LastStep(c)))

C2_Witness ==
    \E c \in Calls :
        /\ pc[c] = "RETURNED"
        /\ args[c].value # <<>>
        /\ result[c] = F(payload[c], args[c].value)

\* C3: the steps of a call run in program order, each at most once and only
\* after every earlier step succeeded; nothing runs after a failure, only
\* the protected operation runs after the permission check, and the error
\* that leaves the call is the one of the first step that failed.
C3_FixedOrderFirstFailure ==
    \A c \in Calls :
        /\ IsPrefix(log[c], StepOrder)
        /\ \A j \in 1..(Len(log[c]) - 1) : Returned(Outcome(c, log[c][j]))
        /\ pc[c] = "FAILED" =>
              /\ Raised(Outcome(c, LastStep(c)))
              /\ error[c] = Outcome(c, LastStep(c)).raise
        /\ pc[c] \in {"PERMISSION_CHECKED", "RETURNED"} => AllStepsSucceeded(c)

\* a token that would fail the key lookup and the verification too: the
\* error is the one of the lookup
C3_Witness ==
    \E c \in Calls :
        /\ pc[c] = "FAILED"
        /\ LastStep(c) = "select_key"
        /\ ~InList(token[c].hdr.alg, ALGORITHMS)
        /\ Failure(error[c], "invalid_header", 401)

(***************************************************************************)
(* Properties of check_permissions (SpecPerm).                             *)
(***************************************************************************)
HasPermissions(p) == "permissions" \in DOMAIN p
Granted(required, p) ==
    HasPermissions(p) /\ \E i \in 1..Len(p.permissions) : p.permissions[i] = required

\* C4: check_permissions succeeds only if the permissions entry holds an
\* element equal to the required permission; when the entry exists and holds
\* no such element it fails with unauthorized_permission/401, for every
\* required permission, the empty string included.
C4_ExactMembership ==
    out # None =>
        /\ Returned(out) => Granted(inp.permission, inp.payload)
        /\ HasPermissions(inp.payload) /\ ~Granted(inp.permission, inp.payload) =>
              Raised(out) /\ Failure(out.raise, "unauthorized_permission", 401)

\* a permission that differs from the required one only by case
C4_Witness ==
    /\ out # None
    /\ inp.permission = "get:stock"
    /\ HasPermissions(inp.payload)
    /\ inp.payload.permissions = <<"GET:STOCK", "get:">>
    /\ Raised(out)

\* C5: on a payload without a permissions entry check_permissions fails
\* with invalid_permission/400 whatever the required permission is.
C5_MissingPermissions ==
    out # None /\ ~HasPermissions(inp.payload) =>
        Raised(out) /\ Failure(out.raise, "invalid_permission", 400)

C5_Witness ==
    /\ out # None
    /\ ~HasPermissions(inp.payload)
    /\ inp.permission = ""
    /\ Raised(out)

(***************************************************************************)
(* Properties of the verification against a resolved key (SpecVerify).     *)
(***************************************************************************)
SigFails(t, key) == ~IsJwt(t) \/ ~InList(t.hdr.alg, ALGORITHMS) \/ t.sig # key.n
Expired(cl, t) == "exp" \in DOMAIN cl /\ cl.exp < t
NotYetValid(cl, t) == "nbf" \in DOMAIN cl /\ cl.nbf > t
AudMismatch(cl) == "aud" \in DOMAIN cl /\ cl.aud # API_AUDIENCE
IssMismatch(cl) == "iss" \notin DOMAIN cl \/ cl.iss # ISSUER
Fails(r, code, status_code) == Raised(r) /\ Failure(r.raise, code, status_code)

\* C6 as stated: signature or decoding failure gives invalid_token/400;
\* otherwise a passed expiry gives token_expired/401; otherwise an audience
\* or issuer mismatch or any other failed claims validation gives
\* invalid_claims/401; otherwise verification succeeds.
C6_ExpiryBeforeOtherClaims ==
    out # None =>
        IF SigFails(inp.token, inp.rsa) THEN Fails(out, "invalid_token", 400)
        ELSE IF Expired(inp.token.claims, inp.now) THEN Fails(out, "token_expired", 401)
        ELSE IF \/ AudMismatch(inp.token.claims)
                \/ IssMismatch(inp.token.claims)
                \/ NotYetValid(inp.token.claims, inp.now)
        THEN Fails(out, "invalid_claims", 401)
        ELSE out = Ok(inp.token.claims)

\* C6 (amended): signature or decoding failure gives invalid_token/400;
\* otherwise the claims are validated in the order not-before, expiry,
\* audience, issuer and the first failed validation decides: a not-before in
\* the future gives invalid_claims/401 even when the expiry has passed, a
\* passed expiry gives token_expired/401 even when audience or issuer
\* mismatch, an audience that is present and different or an issuer that is
\* absent or different gives invalid_claims/401; otherwise verification
\* succeeds with the token's claims.
C6_LibraryOrder ==
    out # None =>
        IF SigFails(inp.token, inp.rsa) THEN Fails(out, "invalid_token", 400)
        ELSE IF NotYetValid(inp.token.claims, inp.now) THEN Fails(out, "invalid_claims", 401)
        ELSE IF Expired(inp.token.claims, inp.now) THEN Fails(out, "token_expired", 401)
        ELSE IF AudMismatch(inp.token.claims) \/ IssMismatch(inp.token.claims)
        THEN Fails(out, "invalid_claims", 401)
        ELSE out = Ok(inp.token.claims)

\* an expired token whose audience and issuer mismatch too
C6_Witness ==
    /\ out # None
    /\ ~SigFails(inp.token, inp.rsa)
    /\ Expired(inp.token.claims, inp.now)
    /\ AudMismatch(inp.token.claims)
    /\ IssMismatch(inp.token.claims)
    /\ Fails(out, "token_expired", 401)

(***************************************************************************)
(* Properties of key resolution and verification inside the guarded call.  *)
(***************************************************************************)
Keys(c) == jwks[c].keys
Fetched(c) == jwks[c] # None
HasToken(c) == token[c] # None
EntriesHaveKid(c) == \A i \in 1..Len(Keys(c)) : "kid" \in DOMAIN Keys(c)[i]
EntriesComplete(c) == \A i \in 1..Len(Keys(c)) : KeyFields \subseteq DOMAIN Keys(c)[i]
SignerInKeySet(c) ==
    \E i \in 1..Len(Keys(c)) : "n" \in DOMAIN Keys(c)[i] /\ Keys(c)[i].n = token[c].sig
KidInKeySet(c) ==
    \E i \in 1..Len(Keys(c)) :
        "kid" \in DOMAIN Keys(c)[i] /\ Keys(c)[i].kid = token[c].hdr.kid

\* C7: a token that cannot be decoded and that passed header extraction
\* makes the call fail with invalid_token/400 once the key set was fetched.
C7_MalformedTokenClassified ==
    \A c \in Calls :
        HasToken(c) /\ ~IsJwt(token[c]) /\ Fetched(c) /\ pc[c] # "JWKS_FETCHED" =>
            pc[c] = "FAILED" /\ Failure(error[c], "invalid_token", 400)

\* C8 as stated: a call whose token (RS256, with a key identifier) was
\* signed with a key that matches no entry of the fetched, non-empty key set
\* ends with invalid_token/400.
C8_UnknownSignerIsInvalidToken ==
    \A c \in Calls :
        /\ HasToken(c) /\ IsJwt(token[c]) /\ "kid" \in DOMAIN token[c].hdr
        /\ InList(token[c].hdr.alg, ALGORITHMS)
        /\ Fetched(c) /\ Keys(c) # <<>>
        /\ EntriesComplete(c) /\ ~SignerInKeySet(c)
        /\ pc[c] \in {"FAILED", "RETURNED"}
        => Failure(error[c], "invalid_token", 400)

\* C8 (amended): when the token's key identifier resolves to an entry of
\* the key set and the token was signed with a key that matches no entry,
\* verification fails with invalid_token/400.
C8_ResolvedButUnknownSigner ==
    \A c \in Calls :
        InLog(c, "jwt.decode") /\ ~SignerInKeySet(c) =>
            pc[c] = "FAILED" /\ Failure(error[c], "invalid_token", 400)

C8_Witness ==
    \E c \in Calls :
        /\ InLog(c, "jwt.decode")
        /\ ~SignerInKeySet(c)
        /\ InList(token[c].hdr.alg, ALGORITHMS)
        /\ rsa[c].kid = token[c].hdr.kid
        /\ Failure(error[c], "invalid_token", 400)

\* C9: when the token's key identifier equals the kid of no entry of the
\* fetched key set (the empty key set included), key resolution fails with
\* invalid_header/401 "Token header is malformed." and the signature is
\* never verified.
C9_UnknownKid ==
    \A c \in Calls :
        /\ InLog(c, "select_key")
        /\ "kid" \in DOMAIN unverified_header[c]
        /\ EntriesHaveKid(c) /\ ~KidInKeySet(c)
        => /\ pc[c] = "FAILED"
           /\ error[c] = AuthError("invalid_header", "Token header is malformed.", 401)
           /\ rsa[c] = None
           /\ ~InLog(c, "jwt.decode")

C9_Witness ==
    \E c \in Calls :
        /\ InLog(c, "select_key")
        /\ "kid" \in DOMAIN unverified_header[c]
        /\ Len(Keys(c)) = MaxKeys
        /\ EntriesHaveKid(c) /\ ~KidInKeySet(c)
        /\ pc[c] = "FAILED"

NoKid(c) == HasToken(c) /\ IsJwt(token[c]) /\ "kid" \notin DOMAIN token[c].hdr

\* C10 as stated: a call whose token header carries no key identifier fails
\* with invalid_header/401 whether or not the key-set fetch succeeds.
C10_NoKidWhateverTheFetch ==
    \A c \in Calls :
        NoKid(c) /\ pc[c] = "FAILED" => Failure(error[c], "invalid_header", 401)

\* C10 (amended): when the key-set fetch succeeds, a token header without
\* key identifier makes key resolution fail with invalid_header/401 whatever
\* the key set holds; when the fetch fails the call ends with the error of
\* the fetch, before the token is looked at.
C10_NoKidAfterFetch ==
    \A c \in Calls :
        /\ NoKid(c) /\ InLog(c, "select_key") =>
              /\ pc[c] = "FAILED"
              /\ Failure(error[c], "invalid_header", 401)
              /\ rsa[c] = None
        /\ NoKid(c) /\ pc[c] = "FAILED" =>
              IF Fetched(c)
              THEN LastStep(c) = "select_key"
              ELSE LastStep(c) = "urlopen" /\ error[c] = URLError

C10_Witness ==
    \E c \in Calls :
        /\ NoKid(c)
        /\ Fetched(c)
        /\ Len(Keys(c)) > 0
        /\ pc[c] = "FAILED"
        /\ error[c] = AuthError("invalid_header", "key id missing in token header", 401)

(***************************************************************************)
(* get_token_auth_header applied on its own to a header.                   *)
(***************************************************************************)
MaxHeaderLen == 5   \* longest header, in atoms

\* words a header is made of: scheme names in several capitalisations,
\* another scheme, plain text in two capitalisations and a token
HeaderWords ==
    {[w |-> "Bearer"], [w |-> "bearer"], [w |-> "BEARER"], [w |-> "bEaReR"],
     [w |-> "Basic"], [w |-> "abc"], [w |-> "AbC"], SampleJwt}

\* strings: words are maximal, so no two words are adjacent
HeaderStrings ==
    {s \in SeqsUpTo(HeaderWords \cup {SP}, MaxHeaderLen) :
        \A i \in 1..(Len(s) - 1) : s[i] = SP \/ s[i + 1] = SP}

AllHeaders == {NoHeader} \cup {HeaderOf(s) : s \in HeaderStrings}

InitHeader ==
    /\ InitGate
    /\ inp \in [header : AllHeaders]
    /\ out = None

ApplyGetTokenAuthHeader ==
    /\ out = None
    /\ out' = get_token_auth_header(inp.header)
    /\ UNCHANGED <<inp, gatevars>>

SpecHeader == InitHeader /\ [][ApplyGetTokenAuthHeader]_vars

(***************************************************************************)
(* Properties of get_token_auth_header (SpecHeader).                       *)
(***************************************************************************)
IsBearer(word) == "w" \in DOMAIN word /\ LowerStr(word.w) = "bearer"

\* the parts between runs of spaces, as str.split() gives them
RECURSIVE WhitespaceParts(_)
WhitespaceParts(s) ==
    IF s = <<>> THEN <<>>
    ELSE IF Head(s) = SP THEN WhitespaceParts(Tail(s))
    ELSE <<Head(s)>> \o WhitespaceParts(Tail(s))

\* 'Bearer <single-token>': a scheme word, one space, one non-empty word
BearerForm(h) ==
    /\ h.present
    /\ Len(h.value) = 3
    /\ IsBearer(h.value[1])
    /\ h.value[2] = SP
    /\ h.value[3] # SP

\* C11: every header value that is not of the form 'Bearer <single-token>'
\* (wrong scheme, fewer or more than two parts, missing or empty token part)
\* makes header extraction fail with invalid_header/401.
C11_NotBearerFormFails ==
    out # None /\ inp.header.present /\ ~BearerForm(inp.header) =>
        Fails(out, "invalid_header", 401)

\* C13 as stated: every header (without leading or trailing space) with
\* exactly two whitespace-separated parts, the first equal to 'bearer'
\* whatever its case, yields the second part verbatim.
C13_TwoWhitespaceParts ==
    out # None /\ inp.header.present =>
        LET value == inp.header.value
            parts == WhitespaceParts(value)
        IN Len(parts) = 2 /\ IsBearer(parts[1]) /\ value[1] # SP /\ value[Len(value)] # SP
           => out = Ok(parts[2])

\* C13 (amended): every header made of a first part equal to 'bearer'
\* whatever its case, one single space and a second part without spaces
\* (possibly empty), and nothing else, yields the second part verbatim; no
\* other header yields a token.
C13_TwoSingleSpaceParts ==
    out # None =>
        LET h == inp.header
            shape == /\ h.present
                     /\ Len(h.value) \in {2, 3}
                     /\ IsBearer(h.value[1])
                     /\ h.value[2] = SP
                     /\ Len(h.value) = 3 => h.value[3] # SP
        IN /\ shape => out = Ok(IF Len(h.value) = 3 THEN h.value[3] ELSE EmptyWord)
           /\ Returned(out) => shape

\* a scheme in mixed case and a token with capitals
C13_Witness ==
    /\ out # None
    /\ inp.header = HeaderOf(<<[w |-> "bEaReR"], SP, [w |-> "AbC"]>>)
    /\ out = Ok([w |-> "AbC"])

\* C12: a call whose request carries no Authorization header fails at
\* header extraction with invalid_header/401 and runs nothing else: no
\* key-set fetch, no look at a token, no permission check.
C12_MissingHeader ==
    \A c \in Calls :
        pc[c] \notin {"NEW", "START"} /\ ~header[c].present =>
            /\ pc[c] = "FAILED"
            /\ error[c] = AuthError("invalid_header", "Authorization header is missing.", 401)
            /\ log[c] = <<"get_token_auth_header">>
            /\ token[c] = None /\ jwks[c] = None /\ fcalls[c] = <<>>

C12_Witness ==
    \E c \in Calls :
        /\ header[c] = NoHeader
        /\ pc[c] = "FAILED"
        /\ Failure(error[c], "invalid_header", 401)

\* the (code, status) rows of the failure taxonomy
Taxonomy ==
    {<<"invalid_header", 401>>, <<"token_expired", 401>>, <<"invalid_claims", 401>>,
     <<"invalid_token", 400>>, <<"invalid_permission", 400>>,
     <<"unauthorized_permission", 401>>}

\* C14: every call whose key-set fetch succeeded and that ended without
\* invoking the protected operation ended with an AuthError whose (code,
\* status) pair is a row of the taxonomy, whatever the token, the key-set
\* entries and the header.
C14_EveryFailureClassified ==
    \A c \in Calls :
        pc[c] = "FAILED" /\ Fetched(c) =>
            /\ IsAuthError(error[c])
            /\ <<error[c].error.code, error[c].status_code>> \in Taxonomy

Count(c, step) == Cardinality({i \in 1..Len(log[c]) : log[c][i] = step})
Position(c, step) == CHOOSE i \in 1..Len(log[c]) : log[c][i] = step

\* C15: a call attempts the key-set fetch at most once; a transport failure
\* of the fetch ends the call as a failure carrying that error, the fetch
\* being the last step the call ever ran: no key scan, no verification, no
\* permission check, no protected operation.
C15_SingleFetchNoRetry ==
    \A c \in Calls :
        /\ Count(c, "urlopen") <= 1
        /\ InLog(c, "urlopen") /\ ~Fetched(c) /\ pc[c] # "FETCHING" =>
              /\ pc[c] = "FAILED"
              /\ error[c] = URLError
              /\ log[c] = <<"get_token_auth_header", "urlopen">>
              /\ unverified_header[c] = None /\ rsa[c] = None /\ payload[c] = None
              /\ fcalls[c] = <<>>

C15_Witness ==
    \E c \in Calls :
        /\ pc[c] = "FAILED"
        /\ error[c] = URLError
        /\ LastStep(c) = "urlopen"

\* entry i carries the kid of the token of call c and no entry before it does
FirstMatch(c, i) ==
    /\ \A j \in 1..i : "kid" \in DOMAIN Keys(c)[j]
    /\ Keys(c)[i].kid = unverified_header[c].kid
    /\ \A j \in 1..(i - 1) : Keys(c)[j].kid # unverified_header[c].kid

\* C19: the key a call resolves is the first entry, in key-set order, whose
\* kid equals the token's kid, copied with exactly the fields kty, kid, use,
\* n and e; entries after it play no part, even when they also carry the
\* kid or lack fields.
C19_FirstMatchWins ==
    \A c \in Calls :
        /\ rsa[c] # None =>
              \E i \in 1..Len(Keys(c)) :
                  /\ FirstMatch(c, i)
                  /\ DOMAIN rsa[c] = KeyFields
                  /\ rsa[c] = Restrict(Keys(c)[i], KeyFields)
        /\ InLog(c, "select_key") /\ "kid" \in DOMAIN unverified_header[c] =>
              \A i \in 1..Len(Keys(c)) :
                  FirstMatch(c, i) /\ KeyFields \subseteq DOMAIN Keys(c)[i] =>
                      rsa[c] = Restrict(Keys(c)[i], KeyFields)

\* two entries carry the token's kid with different key material
C19_Witness ==
    \E c \in Calls :
        /\ rsa[c] # None
        /\ Len(Keys(c)) = 2
        /\ "kid" \in DOMAIN Keys(c)[2]
        /\ Keys(c)[1].kid = Keys(c)[2].kid
        /\ Keys(c)[1].n # Keys(c)[2].n
        /\ rsa[c].n = Keys(c)[1].n

\* C20: a call whose header extraction succeeded makes exactly one fetch
\* attempt, and makes it before the token header is peeked at: a token
\* without kid or an undecodable token has cost one fetch when it is
\* rejected; a call whose header extraction failed makes no fetch.
C20_FetchBeforePeek ==
    \A c \in Calls :
        /\ HasToken(c) /\ pc[c] # "HEADER_EXTRACTED" => Count(c, "urlopen") = 1
        /\ InLog(c, "get_unverified_header") =>
              /\ Count(c, "urlopen") = 1
              /\ Position(c, "urlopen") < Position(c, "get_unverified_header")
        /\ HasToken(c) /\ pc[c] = "FAILED" => InLog(c, "urlopen")
        /\ ~HasToken(c) => ~InLog(c, "urlopen")

\* a token without kid rejected after the fetch
C20_Witness ==
    \E c \in Calls :
        /\ NoKid(c)
        /\ pc[c] = "FAILED"
        /\ log[c] = <<"get_token_auth_header", "urlopen", "get_unverified_header",
                      "select_key">>

(***************************************************************************)
(* Progress of a guarded call.  The wrapper is synchronous code: once      *)
(* called, each of its own steps is taken.  The answer to urlopen(url) is  *)
(* the identity provider's step; the call passes no timeout, so nothing in *)
(* the program makes that step happen.                                     *)
(***************************************************************************)
ProgramStep(c) ==
    \/ ExtractHeader(c)
    \/ CallUrlopen(c)
    \/ PeekHeader(c)
    \/ SelectKey(c)
    \/ DecodeToken(c)
    \/ CheckPermission(c)
    \/ InvokeF(c)

SpecLive == Init /\ [][Next]_vars /\ \A c \in Solo : WF_vars(ProgramStep(c))

\* C16: every call that has started eventually reaches a terminal state,
\* the protected operation invoked or a failure, even when the identity
\* provider never answers the key-set request.
C16_EveryCallTerminates ==
    \A c \in Solo : (pc[c] = "START") ~> (pc[c] \in {"RETURNED", "FAILED"})

(***************************************************************************)
(* Two guarded calls for independent requests, their steps interleaved.    *)
(***************************************************************************)
\* tokens: a good one, one that expires early, one without permissions and
\* plain text
ConcTokens ==
    {SampleJwt,
     [SampleJwt EXCEPT !.claims.exp = 1],
     [SampleJwt EXCEPT !.claims = Restrict(@, {"exp", "aud", "iss"})],
     [w |-> "abc"]}

ConcHeaders == {NoHeader} \cup {HeaderOf(<<[w |-> "Bearer"], SP, t>>) : t \in ConcTokens}

\* answers of the endpoint: the signing key, a rotated key under the same
\* kid, no key
ConcDocuments ==
    {[keys |-> <<SampleKey>>], [keys |-> <<[SampleKey EXCEPT !.n = "N2"]>>],
     [keys |-> <<>>]}

ConcCall(c) == CallWith(c, {"get:stock"}, CallerArgs, ConcHeaders)
ConcFetch(c) == ReceiveJwks(c, ConcDocuments)

ConcStep(c) ==
    \/ ConcCall(c)
    \/ ExtractHeader(c)
    \/ CallUrlopen(c)
    \/ ConcFetch(c)
    \/ PeekHeader(c)
    \/ SelectKey(c)
    \/ DecodeToken(c)
    \/ CheckPermission(c)
    \/ InvokeF(c)

NextConc == \E c \in Calls : ConcStep(c)

SpecConc == Init /\ [][NextConc]_vars

\* the outcome of one call run from start to end with nothing else running:
\* request (header h, arguments a) under a guard for permission p, the
\* endpoint's answer (None for a transport failure) and the clock reading t
RunAlone(h, p, a, response, t) ==
    LET extracted == get_token_auth_header(h) IN
    IF Raised(extracted) THEN extracted
    ELSE IF response = None THEN Raise(URLError)
    ELSE LET verified == verify_decode_jwt(extracted.ret, response, t) IN
         IF Raised(verified) THEN verified
         ELSE LET checked == check_permissions(p, verified.ret) IN
              IF Raised(checked) THEN checked
              ELSE Ok(F(verified.ret, a))

Ended(c) == pc[c] \in {"RETURNED", "FAILED"}
Observed(c) == IF pc[c] = "RETURNED" THEN Ok(result[c]) ELSE Raise(error[c])

\* C17: under every interleaving of two calls, each call that has ended has
\* the outcome it has when run alone with its request, its key-set response
\* and its clock reading; the operation was handed that run's claim set; and
\* each call with a token made its own fetch.
C17_OutcomeAsWhenRunAlone ==
    \A c \in Calls :
        Ended(c) =>
            /\ Observed(c) = RunAlone(header[c], permission[c].value, args[c].value,
                                      jwks[c], now[c])
            /\ pc[c] = "RETURNED" =>
                  fcalls[c] = << <<result[c].body.payload>> \o args[c].value >>
            /\ HasToken(c) => Count(c, "urlopen") = 1

\* the same request answered with different key sets: one call is served,
\* the other is refused
C17_Witness ==
    /\ pc[1] = "RETURNED" /\ pc[2] = "FAILED"
    /\ header[1] = header[2]
    /\ jwks[1] # jwks[2] /\ jwks[2] # None
    /\ Failure(error[2], "invalid_token", 400)

Verified(c) == payload[c] # None

\* C18: when two verifications of the same token ran against equal key sets
\* and one of them succeeded, the other, if the token's time claims hold at
\* its clock reading, succeeded as well, and both yielded the same claim set.
C18_SameTokenSameClaims ==
    \A c, d \in Calls :
        /\ c # d
        /\ HasToken(c) /\ token[c] = token[d]
        /\ Fetched(c) /\ jwks[c] = jwks[d]
        /\ Verified(c)
        /\ InLog(d, "jwt.decode")
        => /\ Verified(d) => payload[d] = payload[c]
           /\ ~Expired(token[d].claims, now[d]) /\ ~NotYetValid(token[d].claims, now[d])
                 => Verified(d)

C18_Witness ==
    /\ HasToken(1) /\ token[1] = token[2]
    /\ Fetched(1) /\ jwks[1] = jwks[2]
    /\ Verified(1) /\ Verified(2)
    /\ now[1] # now[2]

====
